---- MODULE Spec2Model ----
(***************************************************************************)
(* A model of space-golf: the cube-sphere mesh conversion of planet.rs and *)
(* the per-frame gravity systems and the launch input handler of main.rs.  *)
(* Vec3 values are triples of integers <<x, y, z>>, Vec2 values are pairs. *)
(***************************************************************************)
EXTENDS Integers, Sequences, FiniteSets, TLC

VARIABLES
    \* ---- planet.rs: impl From<PlanetMesh> for Mesh ----
    resolution,       \* PlanetMesh.resolution of the conversion in progress
    overflow_checks,  \* build profile: TRUE when integer overflow panics
    mesh_pc,          \* "idle" | "map" | "collect" | "done" | "panic"
    vert_lists,       \* Vec<Vec<Vec3>> collected by the map over directions
    triangle_lists,   \* Vec<Vec<u32>> collected by the map over directions
    mesh,             \* the Mesh returned, NoMesh until then
    \* ---- main.rs: the world and the frame loop ----
    world,            \* live entities: id -> components
    next_id,          \* number of entities spawned so far (ids are 1..next_id)
    commands,         \* spawn commands queued by place_body, applied at stage end
    particle_set,     \* the ParticleSet<Body> resource
    body_info,        \* GolfBallSettings.position: None or a Vec3
    stage,            \* stage of the schedule the frame is in
    ran,              \* systems that already ran in the current stage
    fresh,            \* TRUE when particle_set was rebuilt in the current frame
    last_clicks,      \* right after place_body ran: what it did, per left button event
    presses,          \* number of left presses handled so far, counted up to MaxCounted
    spawns            \* number of spawn commands issued by place_body so far

vars == <<resolution, overflow_checks, mesh_pc, vert_lists, triangle_lists, mesh,
          world, next_id, commands, particle_set, body_info, stage, ran, fresh,
          last_clicks, presses, spawns>>

mesh_vars == <<resolution, overflow_checks, mesh_pc, vert_lists, triangle_lists, mesh>>

game_vars == <<world, next_id, commands, particle_set, body_info, stage, ran, fresh,
               last_clicks, presses, spawns>>

(***************************************************************************)
(* Bounds of the model.                                                    *)
(***************************************************************************)
MaxResolution == 10

----------------------------------------------------------------------------
(***************************************************************************)
(* Vec3 arithmetic (glam).                                                 *)
(***************************************************************************)
VAdd(a, b) == <<a[1] + b[1], a[2] + b[2], a[3] + b[3]>>

VSub(a, b) == <<a[1] - b[1], a[2] - b[2], a[3] - b[3]>>

VScale(k, a) == <<k * a[1], k * a[2], k * a[3]>>

yzx(v) == <<v[2], v[3], v[1]>>

cross(a, b) == <<a[2] * b[3] - a[3] * b[2],
                 a[3] * b[1] - a[1] * b[3],
                 a[1] * b[2] - a[2] * b[1]>>

xy(v) == <<v[1], v[2]>>

----------------------------------------------------------------------------
(***************************************************************************)
(* planet.rs                                                               *)
(***************************************************************************)
\* The Mesh before anything was inserted into it.
NoMesh == [indices |-> <<>>, positions |-> <<>>, normals |-> <<>>]

\* normalize() of a vector with NaN components: no direction at all.
NaN == <<0, 0, 0>>

directions == << <<0, 1, 0>>, <<0, -1, 0>>, <<-1, 0, 0>>,
                 <<1, 0, 0>>, <<0, 0, 1>>, <<0, 0, -1>> >>

\* The vertex pushed for grid cell (x, y).  percent_x = x / (resolution - 1), so
\* (resolution - 1) * point_on_unit_cube is the integer vector below; normalize()
\* keeps its direction only, and a vertex is represented by that direction.
\* With resolution = 1 the percentages are 0.0 / 0.0, a NaN.
point_on_unit_sphere(res, local_up, x, y) ==
    LET axis_a == yzx(local_up)
        axis_b == cross(local_up, axis_a)
    IN  IF res - 1 = 0
        THEN NaN
        ELSE VAdd(VScale(res - 1, local_up),
                  VAdd(VScale(2 * x - (res - 1), axis_a),
                       VScale(2 * y - (res - 1), axis_b)))

\* The six indices pushed for the cell whose top-left vertex is i.
CellTriangles(res, i) ==
    <<i, i + res + 1, i + res, i, i + 1, i + res + 1>>

\* triangles pushed in the last row too: the test on y left out
PushedLastRow(res, local_up, x, y) ==
    [vertices  |-> <<point_on_unit_sphere(res, local_up, x, y)>>,
     triangles |-> IF x # res - 1
                   THEN CellTriangles(res, x + y * res)
                   ELSE <<>>]

\* What one iteration of the inner loop pushes: the vertex of cell (x, y) and,
\* away from the last column and the last row, the two triangles of the cell.
Pushed(res, local_up, x, y) ==
    [vertices  |-> <<point_on_unit_sphere(res, local_up, x, y)>>,
     triangles |-> IF x # res - 1 /\ y # res - 1
                   THEN CellTriangles(res, x + y * res)
                   ELSE <<>>]

Then(first, rest) ==
    [vertices  |-> first.vertices \o rest.vertices,
     triangles |-> first.triangles \o rest.triangles]

\* for x in 0..resolution, from column x on
RECURSIVE InnerLoop(_, _, _, _)
InnerLoop(res, local_up, y, x) ==
    IF x >= res
    THEN [vertices |-> <<>>, triangles |-> <<>>]
    ELSE Then(Pushed(res, local_up, x, y), InnerLoop(res, local_up, y, x + 1))

\* for y in 0..resolution, from row y on
RECURSIVE FaceLoop(_, _, _)
FaceLoop(res, local_up, y) ==
    IF y >= res
    THEN [vertices |-> <<>>, triangles |-> <<>>]
    ELSE Then(InnerLoop(res, local_up, y, 0), FaceLoop(res, local_up, y + 1))

\* face(resolution, local_up): the capacity expression (resolution as usize - 1)
\* underflows for resolution = 0: a panic when overflow checks are compiled in,
\* a wrap-around (capacity 6, nothing pushed) when they are not.
face(res, local_up, checks) ==
    IF res = 0 /\ checks
    THEN [panic |-> TRUE, vertices |-> <<>>, triangles |-> <<>>]
    ELSE LET pushed == FaceLoop(res, local_up, 0)
         IN  [panic |-> FALSE, vertices |-> pushed.vertices,
              triangles |-> pushed.triangles]

RECURSIVE Flatten(_)
Flatten(lists) ==
    IF lists = <<>> THEN <<>> ELSE Head(lists) \o Flatten(Tail(lists))

\* the index left as it is local to its face
OffsetIndexNone(res, face_id, local_idx) == local_idx

\* local_idx + face_id as u32 * num_indices, face_id counted from 0
OffsetIndex(res, face_id, local_idx) ==
    local_idx + face_id * (res * res)

OffsetList(res, face_id, list) ==
    [j \in 1..Len(list) |-> OffsetIndex(res, face_id, list[j])]

triangle_list(res, lists) ==
    Flatten([f \in 1..Len(lists) |-> OffsetList(res, f - 1, lists[f])])

\* One step of directions.iter().map(|direction| face(..)).unzip()
MapFace ==
    /\ mesh_pc = "map"
    /\ Len(vert_lists) < Len(directions)
    /\ LET t == face(resolution, directions[Len(vert_lists) + 1], overflow_checks)
       IN  IF t.panic
           THEN /\ mesh_pc' = "panic"
                /\ UNCHANGED <<vert_lists, triangle_lists>>
           ELSE /\ vert_lists' = Append(vert_lists, t.vertices)
                /\ triangle_lists' = Append(triangle_lists, t.triangles)
                /\ mesh_pc' = IF Len(vert_lists) + 1 = Len(directions)
                              THEN "collect" ELSE "map"
    /\ UNCHANGED <<resolution, overflow_checks, mesh>>
    /\ UNCHANGED game_vars

\* The rest of from(): flatten the vertices, offset and flatten the indices,
\* build the Mesh and return it.
Collect ==
    /\ mesh_pc = "collect"
    /\ LET vertices == Flatten(vert_lists)
       IN  mesh' = [indices   |-> triangle_list(resolution, triangle_lists),
                    positions |-> vertices,
                    normals   |-> vertices]
    /\ mesh_pc' = "done"
    /\ UNCHANGED <<resolution, overflow_checks, vert_lists, triangle_lists>>
    /\ UNCHANGED game_vars

----------------------------------------------------------------------------
(***************************************************************************)
(* main.rs, golf_ball.rs, lib.rs                                           *)
(***************************************************************************)
MaxEntities == 3

MaxPoint == 1

MaxEvents == 2

FieldSize == 2

G == 1000

Planet1Mass == 1000000

Planet2Mass == 800000

BallMass == 100

\* The presses are counted as far as the spawns and the pending position can get.
MaxCounted == MaxEntities - 1

\* enum PointMass
HasGravity(m) == [kind |-> "HasGravity", mass |-> m]

AffectedByGravity == [kind |-> "AffectedByGravity", mass |-> 0]

\* Option<Vec3>
None == <<>>

Some(v) == <<v>>

\* Values the MousePosWorld resource takes in the model, at the depth of the camera.
MousePosWorld == {<<60 * i, 80 * i, 999>> : i \in 0..MaxPoint}

\* mouse_pos.truncate().extend(0.0)
TruncateExtend(v) == <<v[1], v[2], 0>>

\* Translations the physics engine may move a dynamic body to.
Points == {TruncateExtend(m) : m \in MousePosWorld}

\* The events place_body reads: the two of the left button, and one of another
\* button standing for all those it ignores.
MouseButtonInput ==
    {[button |-> "Left", state |-> "Pressed"],
     [button |-> "Left", state |-> "Released"],
     [button |-> "Right", state |-> "Pressed"]}

RECURSIVE SeqsUpTo(_, _)
SeqsUpTo(S, n) ==
    IF n = 0 THEN {<<>>}
    ELSE LET shorter == SeqsUpTo(S, n - 1)
         IN  shorter \cup {Append(q, e) : q \in shorter, e \in S}

\* struct CircleWithGravity, as far as the systems of main.rs read or write it
CircleWithGravity(translation, rigidbody, velocity, point_mass) ==
    [translation |-> translation,
     rigidbody   |-> rigidbody,
     velocity    |-> velocity,
     force       |-> <<0, 0>>,
     point_mass  |-> point_mass]

\* The components of a spawned bundle that the systems of main.rs read or write
\* later on; the Velocity goes to the physics engine.
Components(bundle) ==
    [translation |-> bundle.translation,
     rigidbody   |-> bundle.rigidbody,
     force       |-> bundle.force,
     point_mass  |-> bundle.point_mass]

\* The entities the queued commands spawn, with the next free ids.
Spawned(w, first, cmds) ==
    [e \in DOMAIN w \cup (first + 1)..(first + Len(cmds)) |->
        IF e \in DOMAIN w THEN w[e] ELSE Components(cmds[e - first])]

\* The world after the startup system setup() and its commands.
SetupWorld ==
    Spawned(<<>>, 0,
        <<CircleWithGravity(<<-300, -50, 1>>, "Fixed", <<0, 0>>, HasGravity(Planet1Mass)),
          CircleWithGravity(<<200, 10, 1>>, "Fixed", <<0, 0>>, HasGravity(Planet2Mass))>>)

\* Body::new(position, mu, entity)
Body(position, mu, entity) ==
    [position |-> position, mu |-> mu, entity |-> entity]

\* the match on point_mass in sync_particle_set
mu_of(point_mass) ==
    IF point_mass.kind = "HasGravity" THEN point_mass.mass * G ELSE 0

\* query.for_each(..): one Body per entity of the query, in entity order
RECURSIVE BodiesOf(_, _)
BodiesOf(w, ids) ==
    IF ids = {} THEN <<>>
    ELSE LET e == CHOOSE m \in ids : \A o \in ids : m <= o
         IN  <<Body(w[e].translation, mu_of(w[e].point_mass), e)>>
             \o BodiesOf(w, ids \ {e})

\* The entities matched by Query<(Entity, &GlobalTransform, &PointMass)>: every
\* entity of the world is a CircleWithGravity bundle and has both components.
QueryEntities(w) == DOMAIN w

\* the set added to without being replaced by a new one first
RebuiltSetKept(old, w) == old \o BodiesOf(w, QueryEntities(w))

\* *particle_set = ParticleSet::new(); query.for_each(|..| particle_set.add(..))
RebuiltSet(old, w) == BodiesOf(w, QueryEntities(w))

----------------------------------------------------------------------------
(***************************************************************************)
(* ParticleSet::result() of the particular crate: the acceleration of each *)
(* body of the set, in fixed-point integer arithmetic.                     *)
(***************************************************************************)
MinDistanceSquared == 1

RECURSIVE IsqrtBetween(_, _, _)
IsqrtBetween(n, lo, hi) ==
    IF hi - lo <= 1 THEN lo
    ELSE LET mid == (lo + hi) \div 2
         IN  IF mid * mid <= n THEN IsqrtBetween(n, mid, hi)
                               ELSE IsqrtBetween(n, lo, mid)

length_squared(d) == d[1] * d[1] + d[2] * d[2] + d[3] * d[3]

\* The translations an entity can have, and the squared distances between them.
Translations == {SetupWorld[e].translation : e \in DOMAIN SetupWorld} \cup Points

SquaredDistances ==
    {length_squared(<<p[1] - q[1], p[2] - q[2], p[3] - q[3]>>) :
        p \in Translations, q \in Translations} \cup {MinDistanceSquared}

\* floor of the square root, for 0 <= n < 2^30, tabulated once
SquareRoots == [n \in SquaredDistances |-> IsqrtBetween(n, 0, 32768)]

Isqrt(n) == SquareRoots[n]

Abs(k) == IF k < 0 THEN -k ELSE k

Sign(k) == IF k < 0 THEN -1 ELSE IF k > 0 THEN 1 ELSE 0

\* mu * d / distance^3 for one component d of the displacement, with the squared
\* distance floored at MinDistanceSquared
Pull(mu, d, dist2) ==
    LET floored == IF dist2 < MinDistanceSquared THEN MinDistanceSquared ELSE dist2
    IN  Sign(d) * (((mu \div floored) * Abs(d)) \div Isqrt(floored))

\* The acceleration body b gets from body c.
Contribution(b, c) ==
    LET dir == VSub(c.position, b.position)
        dist2 == length_squared(dir)
    IN  <<Pull(c.mu, dir[1], dist2), Pull(c.mu, dir[2], dist2), Pull(c.mu, dir[3], dist2)>>

RECURSIVE Accumulate(_, _, _)
Accumulate(set, i, j) ==
    IF j > Len(set) THEN <<0, 0, 0>>
    ELSE IF j = i \/ set[j].mu = 0
         THEN Accumulate(set, i, j + 1)
         ELSE VAdd(Contribution(set[i], set[j]), Accumulate(set, i, j + 1))

\* particle_set.result(): the pairs (body, gravity)
result(set) ==
    [i \in 1..Len(set) |-> [body |-> set[i], gravity |-> Accumulate(set, i, 1)]]

----------------------------------------------------------------------------
(***************************************************************************)
(* The schedule built in main().                                           *)
(***************************************************************************)
Systems == {"sync_particle_set", "place_body", "accelerate_particles"}

\* sync_particle_set added with add_system, to the Update stage like the others
StageOfAllUpdate(system) == "Update"

StageOf(system) ==
    CASE system = "sync_particle_set"    -> "PreUpdate"
      [] system = "place_body"           -> "Update"
      [] system = "accelerate_particles" -> "Update"

MayRun(system) == stage = StageOf(system) /\ system \notin ran

\* fn sync_particle_set
sync_particle_set ==
    /\ MayRun("sync_particle_set")
    /\ particle_set' = RebuiltSet(particle_set, world)
    /\ fresh' = TRUE
    /\ ran' = ran \cup {"sync_particle_set"}
    /\ UNCHANGED <<world, next_id, commands, body_info, stage, last_clicks,
                   presses, spawns>>
    /\ UNCHANGED mesh_vars

\* acceleration.force += gravity.xy()
WrittenForceAdded(old, gravity) == <<old[1] + gravity[1], old[2] + gravity[2]>>

\* acceleration.force = gravity.xy()
WrittenForce(old, gravity) == xy(gravity)

\* the loop left at the first body whose entity is gone
AcceleratedUntilMissing(w, res, n) ==
    LET missing == {k \in 1..n : res[k].body.entity \notin DOMAIN w}
        stop == IF missing = {} THEN n
                ELSE (CHOOSE k \in missing : \A o \in missing : k <= o) - 1
    IN  [e \in DOMAIN w |->
            IF \E k \in 1..stop : res[k].body.entity = e
            THEN [w[e] EXCEPT !.force =
                    xy(res[CHOOSE k \in 1..stop : res[k].body.entity = e].gravity)]
            ELSE w[e]]

\* The for loop of accelerate_particles over the first n pairs of the result.
RECURSIVE Accelerated(_, _, _)
Accelerated(w, res, n) ==
    IF n = 0 THEN w
    ELSE IF res[n].body.entity \in DOMAIN w
         THEN [Accelerated(w, res, n - 1) EXCEPT
                  ![res[n].body.entity].force = WrittenForce(@, res[n].gravity)]
         ELSE Accelerated(w, res, n - 1)

\* fn accelerate_particles
accelerate_particles ==
    /\ MayRun("accelerate_particles")
    /\ world' = Accelerated(world, result(particle_set), Len(particle_set))
    /\ ran' = ran \cup {"accelerate_particles"}
    /\ last_clicks' = <<>>
    /\ UNCHANGED <<next_id, commands, particle_set, body_info, stage, fresh,
                   presses, spawns>>
    /\ UNCHANGED mesh_vars

\* The bundle spawned by place_body on a release.
LaunchedBall(place_pos, mouse_pos) ==
    CircleWithGravity(
        <<place_pos[1], place_pos[2], place_pos[3]>>,
        "Dynamic",
        xy(VSub(place_pos, mouse_pos)),
        HasGravity(BallMass))

\* the pending position read on a release without being taken
HandleClickKept(st, event, mouse_pos) ==
    IF event.button = "Left" /\ event.state = "Released" /\ st.position # None
    THEN LET ball == LaunchedBall(st.position[1], mouse_pos)
         IN  [st EXCEPT !.commands = Append(@, ball),
                        !.clicks = Append(@,
                 [event |-> event, before |-> st.position, after |-> st.position,
                  mouse_pos |-> mouse_pos, spawned |-> <<ball>>])]
    ELSE IF event.button = "Left" /\ event.state = "Pressed"
    THEN [st EXCEPT !.position = Some(mouse_pos),
                    !.presses = IF @ < MaxCounted THEN @ + 1 ELSE @,
                    !.clicks = Append(@,
             [event |-> event, before |-> st.position, after |-> Some(mouse_pos),
              mouse_pos |-> mouse_pos, spawned |-> <<>>])]
    ELSE IF event.button = "Left"
    THEN [st EXCEPT !.clicks = Append(@,
             [event |-> event, before |-> st.position, after |-> st.position,
              mouse_pos |-> mouse_pos, spawned |-> <<>>])]
    ELSE st

\* One iteration of the loop over click_event.iter(): st is the state the loop
\* works on, the pending position and the commands issued so far.
HandleClick(st, event, mouse_pos) ==
    IF event.button # "Left"
    THEN st
    ELSE IF event.state = "Pressed"
    THEN [st EXCEPT !.position = Some(mouse_pos),
                    !.presses = IF @ < MaxCounted THEN @ + 1 ELSE @,
                    !.clicks = Append(@,
             [event |-> event, before |-> st.position, after |-> Some(mouse_pos),
              mouse_pos |-> mouse_pos, spawned |-> <<>>])]
    ELSE IF st.position # None
    THEN LET ball == LaunchedBall(st.position[1], mouse_pos)
         IN  [st EXCEPT !.position = None,
                        !.commands = Append(@, ball),
                        !.clicks = Append(@,
                 [event |-> event, before |-> st.position, after |-> None,
                  mouse_pos |-> mouse_pos, spawned |-> <<ball>>])]
    ELSE [st EXCEPT !.clicks = Append(@,
             [event |-> event, before |-> st.position, after |-> st.position,
              mouse_pos |-> mouse_pos, spawned |-> <<>>])]

RECURSIVE HandleClicks(_, _, _)
HandleClicks(st, events, mouse_pos) ==
    IF events = <<>> THEN st
    ELSE HandleClicks(HandleClick(st, Head(events), mouse_pos), Tail(events), mouse_pos)

\* The event sequences a frame may deliver to place_body.
ClickSeqs == SeqsUpTo(MouseButtonInput, MaxEvents)

\* fn place_body, for the events of this frame, one of inputs, and the
\* MousePosWorld resource
place_body(inputs) ==
    /\ MayRun("place_body")
    /\ \E events \in inputs, mouse_pos_world \in MousePosWorld :
       LET mouse_pos == TruncateExtend(mouse_pos_world)
           st == HandleClicks([position |-> body_info, commands |-> commands,
                               presses |-> presses, clicks |-> <<>>],
                              events, mouse_pos)
       IN  /\ next_id + Len(st.commands) <= MaxEntities
           /\ body_info' = st.position
           /\ commands' = st.commands
           /\ presses' = st.presses
           /\ spawns' = spawns + (Len(st.commands) - Len(commands))
           /\ last_clicks' = st.clicks
    /\ ran' = ran \cup {"place_body"}
    /\ UNCHANGED <<world, next_id, particle_set, stage, fresh>>
    /\ UNCHANGED mesh_vars

\* The end of the PreUpdate stage: every system of the stage ran.
end_stage ==
    /\ stage = "PreUpdate"
    /\ \A s \in Systems : StageOf(s) = stage => s \in ran
    /\ ran' = {}
    /\ stage' = "Update"
    /\ UNCHANGED <<world, next_id, commands, particle_set, body_info, fresh,
                   last_clicks, presses, spawns>>
    /\ UNCHANGED mesh_vars

Dynamic(w) == {e \in DOMAIN w : w[e].rigidbody = "Dynamic"}

\* Where the physics engine leaves the entities: the dynamic bodies moved.
Moved(w, to) ==
    [e \in DOMAIN w |->
        IF e \in DOMAIN to
        THEN [w[e] EXCEPT !.translation = to[e]]
        ELSE w[e]]

\* The end of the Update stage and the rest of the frame: the command buffers
\* are applied, the physics engine integrates the dynamic bodies, the transforms
\* are propagated and the next frame starts.
end_frame ==
    /\ stage = "Update"
    /\ \A s \in Systems : StageOf(s) = stage => s \in ran
    /\ LET spawned == Spawned(world, next_id, commands)
       IN  \E to \in [Dynamic(spawned) -> Points] : world' = Moved(spawned, to)
    /\ next_id' = next_id + Len(commands)
    /\ commands' = <<>>
    /\ ran' = {}
    /\ stage' = "PreUpdate"
    /\ fresh' = FALSE
    /\ last_clicks' = <<>>
    /\ UNCHANGED <<particle_set, body_info, presses, spawns>>
    /\ UNCHANGED mesh_vars

\* An entity is removed from the world by something other than these systems
\* (the world inspector added in main()), between the rebuild of the set and the
\* systems of the Update stage.
despawn(e) ==
    /\ stage = "Update"
    /\ ran = {}
    /\ e \in DOMAIN world
    /\ world' = [o \in DOMAIN world \ {e} |-> world[o]]
    /\ UNCHANGED <<next_id, commands, particle_set, body_info, stage, ran, fresh,
                   last_clicks, presses, spawns>>
    /\ UNCHANGED mesh_vars

\* Worlds for checking the gravity systems on their own: FieldSize launched
\* bodies, each a source or a sink, anywhere.
FieldBodies ==
    {Components(CircleWithGravity(p, "Dynamic", <<0, 0>>, pm)) :
        p \in Points, pm \in {AffectedByGravity, HasGravity(BallMass)}}

\* The state after App::new() .. add_startup_system(setup): no conversion running.
Init ==
    /\ mesh_pc = "idle"
    /\ resolution = 0
    /\ overflow_checks = FALSE
    /\ vert_lists = <<>>
    /\ triangle_lists = <<>>
    /\ mesh = NoMesh
    /\ world = SetupWorld
    /\ next_id = 2
    /\ commands = <<>>
    /\ particle_set = <<>>
    /\ body_info = None
    /\ stage = "PreUpdate"
    /\ ran = {}
    /\ fresh = FALSE
    /\ last_clicks = <<>>
    /\ presses = 0
    /\ spawns = 0

InitField ==
    /\ mesh_pc = "idle"
    /\ resolution = 0
    /\ overflow_checks = FALSE
    /\ vert_lists = <<>>
    /\ triangle_lists = <<>>
    /\ mesh = NoMesh
    /\ world \in [1..FieldSize -> FieldBodies]
    /\ next_id = FieldSize
    /\ commands = <<>>
    /\ particle_set = <<>>
    /\ body_info = None
    /\ stage = "PreUpdate"
    /\ ran = {}
    /\ fresh = FALSE
    /\ last_clicks = <<>>
    /\ presses = 0
    /\ spawns = 0

Next ==
    \/ sync_particle_set
    \/ accelerate_particles
    \/ place_body(ClickSeqs)
    \/ end_stage
    \/ end_frame
    \/ \E e \in DOMAIN world : despawn(e)

Spec == Init /\ [][Next]_vars

\* Frames in which no mouse button event arrives.
FieldClicks == {<<>>}

NextField ==
    \/ sync_particle_set
    \/ accelerate_particles
    \/ place_body(FieldClicks)
    \/ end_stage
    \/ end_frame
    \/ \E e \in DOMAIN world : despawn(e)

SpecField == InitField /\ [][NextField]_vars

NextMesh == MapFace \/ Collect

InitMesh ==
    /\ mesh_pc = "map"
    /\ resolution \in 0..MaxResolution
    /\ overflow_checks \in BOOLEAN
    /\ vert_lists = <<>>
    /\ triangle_lists = <<>>
    /\ mesh = NoMesh
    /\ world = SetupWorld
    /\ next_id = 2
    /\ commands = <<>>
    /\ particle_set = <<>>
    /\ body_info = None
    /\ stage = "PreUpdate"
    /\ ran = {}
    /\ fresh = FALSE
    /\ last_clicks = <<>>
    /\ presses = 0
    /\ spawns = 0

SpecMesh == InitMesh /\ [][NextMesh]_vars

----------------------------------------------------------------------------
(***************************************************************************)
(* Properties of the mesh conversion (checked under SpecMesh).             *)
(***************************************************************************)
Returned == mesh_pc = "done"

\* Where the indices of face f (1..6) start in the concatenated list.
RECURSIVE EmittedBefore(_)
EmittedBefore(f) ==
    IF f = 1 THEN 0 ELSE EmittedBefore(f - 1) + Len(triangle_lists[f - 1])

\* The indices the conversion emitted for face f.
EmittedFor(f) ==
    {mesh.indices[EmittedBefore(f) + j] : j \in 1..Len(triangle_lists[f])}

\* C1: for a resolution r >= 2 every index emitted for the face of ordinal k
\* lies in k*r*r .. (k+1)*r*r - 1, so it is below the vertex count 6*r*r and
\* the indices of a face are below those of the next face.
C1_IndicesInFaceRange ==
    (Returned /\ resolution >= 2) =>
        /\ \A f \in 1..6 : \A v \in EmittedFor(f) :
              /\ (f - 1) * resolution * resolution <= v
              /\ v <= f * resolution * resolution - 1
        /\ \A j \in 1..Len(mesh.indices) :
              mesh.indices[j] < 6 * resolution * resolution
        /\ \A f \in 1..5 : \A v \in EmittedFor(f), w \in EmittedFor(f + 1) : v < w

C1_Witness ==
    /\ Returned
    /\ resolution = 10
    /\ 99 \in EmittedFor(1)
    /\ 100 \in EmittedFor(2)
    /\ 599 \in EmittedFor(6)

\* C2: for a resolution r >= 2 the mesh has 6*r*r vertices and 6*(r-1)*(r-1)*6
\* indices; 24 vertices and 12 triangles for r = 2.
C2_Counts ==
    (Returned /\ resolution >= 2) =>
        /\ Len(mesh.positions) = 6 * resolution * resolution
        /\ Len(mesh.indices) = 6 * (resolution - 1) * (resolution - 1) * 6
        /\ resolution = 2 => Len(mesh.positions) = 24 /\ Len(mesh.indices) = 12 * 3

C2_Witness ==
    /\ Returned
    /\ resolution = 2
    /\ Len(mesh.positions) = 24
    /\ Len(mesh.indices) = 36

\* C3: a conversion with a resolution below 2 never returns a mesh.
C3_LowResolutionRejected ==
    resolution < 2 => ~Returned

----------------------------------------------------------------------------
(***************************************************************************)
(* Properties of the gravity systems and of the launch handler.            *)
(***************************************************************************)
Ran(system) == system \in ran

JustRan(system) == system \notin ran /\ system \in ran'

BodiesFor(set, e) == {i \in 1..Len(set) : set[i].entity = e}

\* C4: a rebuild leaves exactly one Body for each entity carrying a PointMass and
\* no other Body, with strength mass * G for a source and 0 for a sink.
C4_RebuildExact ==
    [][JustRan("sync_particle_set") =>
        /\ \A e \in DOMAIN world' : Cardinality(BodiesFor(particle_set', e)) = 1
        /\ \A i \in 1..Len(particle_set') :
              LET b == particle_set'[i]
              IN  /\ b.entity \in DOMAIN world'
                  /\ world'[b.entity].point_mass.kind = "HasGravity" =>
                        b.mu = world'[b.entity].point_mass.mass * G
                  /\ world'[b.entity].point_mass.kind = "AffectedByGravity" =>
                        b.mu = 0]_vars

\* a rebuild over a source and a sink, in a frame after the first one
C4_Witness ==
    /\ Ran("sync_particle_set")
    /\ \E i, j \in 1..Len(particle_set) :
          /\ particle_set[i].mu = 0
          /\ particle_set[j].mu = 100000
          /\ particle_set[i].entity \in DOMAIN world
          /\ world[particle_set[i].entity].force # <<0, 0>>

\* C5: applying the result overwrites the force of every body of the set whose
\* entity exists, skips the bodies whose entity is gone and changes nothing else.
C5_ApplyOverwrites ==
    [][JustRan("accelerate_particles") =>
        /\ DOMAIN world' = DOMAIN world
        /\ \A e \in DOMAIN world :
              /\ \A i \in BodiesFor(particle_set, e) :
                    world'[e].force = xy(result(particle_set)[i].gravity)
              /\ BodiesFor(particle_set, e) = {} => world'[e].force = world[e].force
              /\ world'[e].translation = world[e].translation]_vars

\* forces applied in a frame in which a body of the set lost its entity, over
\* forces of an earlier frame
C5_Witness ==
    /\ Ran("accelerate_particles")
    /\ fresh
    /\ \E i, j \in 1..Len(particle_set) :
          /\ particle_set[i].entity \notin DOMAIN world
          /\ particle_set[j].entity \in DOMAIN world
          /\ particle_set[j].entity > particle_set[i].entity
          /\ world[particle_set[j].entity].force # <<0, 0>>
          /\ world[particle_set[j].entity].force = xy(result(particle_set)[j].gravity)

\* C6: a left release after a left press spawns a sink at the release position
\* with the linear velocity press position - release position.
C6_LaunchSpawnsSinkAtRelease ==
    \A i \in 1..Len(last_clicks) :
        LET c == last_clicks[i]
        IN  c.spawned # <<>> =>
               /\ c.spawned[1].point_mass.kind = "AffectedByGravity"
               /\ c.spawned[1].translation = c.mouse_pos
               /\ c.spawned[1].velocity = xy(VSub(c.before[1], c.mouse_pos))

OnlySinks(set) == \A i \in 1..Len(set) : set[i].mu = 0

\* C7: when the set holds sinks only, the acceleration of every body is the zero
\* vector and the force written to every entity is zero.
C7_OnlySinksNoForce ==
    (Ran("accelerate_particles") /\ OnlySinks(particle_set)) =>
        \A i \in 1..Len(particle_set) :
            /\ result(particle_set)[i].gravity = <<0, 0, 0>>
            /\ particle_set[i].entity \in DOMAIN world =>
                  world[particle_set[i].entity].force = <<0, 0>>

\* the forces written to the sinks left after a source was removed
C7_Witness ==
    /\ Ran("accelerate_particles")
    /\ OnlySinks(particle_set)
    /\ \E i \in 1..Len(particle_set) : particle_set[i].entity \in DOMAIN world
    /\ next_id > Cardinality(DOMAIN world)

\* C9: accelerate_particles runs in a frame only after sync_particle_set rebuilt
\* the set in that frame.
C9_SameFrameSnapshot ==
    Ran("accelerate_particles") => fresh

\* forces written in a frame after the first one, to a launched ball too
C9_Witness ==
    /\ Ran("accelerate_particles")
    /\ fresh
    /\ \E e \in DOMAIN world : e > 2 /\ world[e].force # <<0, 0>>
    /\ \E i \in 1..Len(particle_set) : particle_set[i].entity > 2

PendingCount == IF body_info = None THEN 0 ELSE 1

\* C10: a release spawns only when a position is pending and clears it, a release
\* with nothing pending does nothing, a press only replaces the pending position;
\* the spawns never outnumber the presses.
C10_ClickProtocol ==
    /\ \A i \in 1..Len(last_clicks) :
          LET c == last_clicks[i]
              left == c.event.button = "Left"
          IN  /\ (left /\ c.event.state = "Released" /\ c.before # None) =>
                    Len(c.spawned) = 1 /\ c.after = None
              /\ (left /\ c.event.state = "Released" /\ c.before = None) =>
                    c.spawned = <<>> /\ c.after = None
              /\ (left /\ c.event.state = "Pressed") =>
                    c.spawned = <<>> /\ c.after = Some(c.mouse_pos)
              /\ i > 1 => c.before = last_clicks[i - 1].after
    /\ last_clicks # <<>> => body_info = last_clicks[Len(last_clicks)].after
    /\ spawns + PendingCount <= presses

\* a release that spawns followed by a release that finds nothing pending
C10_Witness ==
    /\ Len(last_clicks) = 2
    /\ last_clicks[1].event = [button |-> "Left", state |-> "Released"]
    /\ last_clicks[2].event = [button |-> "Left", state |-> "Released"]
    /\ Len(last_clicks[1].spawned) = 1
    /\ last_clicks[2].spawned = <<>>
    /\ spawns = 1
    /\ presses = 2

====
